---- MODULE Spec2Model ----
(***************************************************************************)
(* Model of meteo_telegram/main.py: the per-country ingestion pipeline     *)
(* (download_and_process_telegrams), the APScheduler job table that runs   *)
(* it, the manual POST /download_telegrams trigger and the point           *)
(* operations GET / PUT / DELETE /telegram/{collection}/{id} on the        *)
(* MongoDB database "telegram".                                            *)
(*                                                                         *)
(* A collection is a bag (multiset) of documents: MongoDB itself puts no   *)
(* uniqueness constraint on id_telegram, so two documents with the same    *)
(* id_telegram are representable, and a find_one / update_one / delete_one *)
(* that matches several documents acts on any one of them.                 *)
(*                                                                         *)
(* A value (what a document field or a JSON body holds) is a record       *)
(* [t |-> its Python type, v |-> its content]: a dict's content is a       *)
(* function from its keys to values, a list's a sequence of values, and a  *)
(* number's a token ("1.5", "18"; the non-finite floats are "inf", "-inf"  *)
(* and "nan"). A stored document is [id_telegram |-> string, data |-> the  *)
(* function from the data keys to values].                                 *)
(***************************************************************************)
EXTENDS Integers, Sequences, FiniteSets, Bags, TLC

VARIABLES
    db,          \* db[name]: the documents of collection name (a bag)
    collections, \* the names db.list_collection_names() returns
    jobs,        \* the job ids registered in the scheduler's job store
    instances,   \* instances[c]: running instances of country c's job
    run,         \* run[w]: the ingest run worker thread w executes, or Idle
    out          \* the last observable outcome: an HTTP response body or
                 \* the scheduler's job event

vars == <<db, collections, jobs, instances, run, out>>

---------------------------------------------------------------------------
(* Bounds of the model *)

\* Longest batch (DataFrame rows) the telegram processor returns.
MaxBatch == 2
\* Most documents the whole database holds; a write that would exceed it
\* is not taken.
MaxRecords == 2
\* Worker threads that can execute an ingest run at once, in Spec.
MaxWorkers == 1
\* The same in SpecConc, where runs overlap.
ConcWorkers == 2
\* Longest batch the telegram processor returns in SpecConc.
ConcBatch == 1
\* Longest batch the telegram processor returns in SpecFilter.
FilterBatch == 1
\* Longest batch the telegram processor returns in SpecPut.
PutBatch == 1

---------------------------------------------------------------------------
(* Program constants and input pools *)

\* The three add_job calls.
Countries == {"bel", "rus", "ua"}

\* scheduler.add_job(...) is called without max_instances: APScheduler's
\* default of one running instance per job applies.
max_instances == 1

Ids == {"A", "B"}
ConcIds == {"A"}

\* Values by Python type.
None == [t |-> "NoneType", v |-> "null"]
Float(x) == [t |-> "float", v |-> x]
Integer(x) == [t |-> "int", v |-> x]
Str(x) == [t |-> "str", v |-> x]
Dict(f) == [t |-> "dict", v |-> f]
List(s) == [t |-> "list", v |-> s]

NonFinite == {"inf", "-inf", "nan"}

\* The data columns of a processor row (without its id_telegram).
DataPool == { [temperature |-> Float("nan")],
              [temperature |-> Float("nan"), hour |-> Integer("18")] }

\* A row of df_result.to_dict('records'): the data columns plus id_telegram.
Row(id, d) ==
    [k \in DOMAIN d \cup {"id_telegram"} |->
        IF k = "id_telegram" THEN id ELSE d[k]]

Rows(I) == { Row(id, d) : id \in I, d \in DataPool }

\* The rows of SpecConc: one id, one payload.
ConcRows == { Row(id, [temperature |-> Float("1.5")]) : id \in ConcIds }

\* Every batch of at most n rows over the pool P.
Batches(P, n) == UNION { [1..m -> P] : m \in 0..n }

\* The request bodies of PUT (dynamic_updates).
Updates == { [hour |-> Integer("18")] }

\* The rows of SpecFilter: decoded telegrams with the fields the filter
\* queries and nested values.
FilterRows ==
    { Row("34504-20240901-18",
          [station_id |-> Str("34504"), year |-> Integer("2024"),
           month |-> Integer("9"), day |-> Integer("1"),
           hour |-> Integer("18"), temperature |-> Float("nan"),
           precipitation_s1 |->
               Dict([amount |-> Float("inf"), time_before_obs |-> None])]),
      Row("34504-20240901-0",
          [station_id |-> Str("34504"), year |-> Integer("2024"),
           month |-> Integer("9"), day |-> Integer("1"),
           hour |-> Integer("0"), temperature |-> Float("25.1"),
           wind |-> List(<< Float("-inf"), Str("nan"),
                            Dict([gust |-> Float("nan")]) >>)]),
      Row("34505-20240902-18",
          [station_id |-> Str("34505"), year |-> Integer("2024"),
           month |-> Integer("9"), day |-> Integer("2"),
           hour |-> Integer("18"), present_weather |-> Str("inf"),
           clouds |-> List(<< List(<< Float("nan"), Integer("3") >>),
                              None >>)]) }

\* The request bodies of POST /filter_telegrams/.
FilterDates ==
    { None, Str("bad"), Str("20240901"), Str("2024090x"), Str("2024 9 1") }

\* The characters of a date string of the pool.
chars(text) ==
    CASE text = "bad" -> <<"b", "a", "d">>
      [] text = "20240901" -> <<"2", "0", "2", "4", "0", "9", "0", "1">>
      [] text = "2024090x" -> <<"2", "0", "2", "4", "0", "9", "0", "x">>
      [] text = "2024 9 1" -> <<"2", "0", "2", "4", " ", "9", " ", "1">>

\* Every combination of the criteria without fields_to_return, and
\* fields_to_return with and without an hour.
Filters ==
    [ country_code : {None, Str("ua"), Str("bel")},
      station_id : {None, Str("34504")},
      date : FilterDates,
      hour : {None, Integer("0"), Integer("18")},
      fields_to_return : {None} ]
    \cup
    [ country_code : {None},
      station_id : {None},
      date : {None},
      hour : {None, Integer("18")},
      fields_to_return : {List(<<>>),
                          List(<<"temperature", "pressure">>)} ]

\* The rows of SpecPut: one payload for every id.
PutRows == { Row(id, [temperature |-> Float("1.5")]) : id \in Ids }

\* The request bodies of PUT in SpecPut: one names the field id_telegram.
KeyUpdates == { [hour |-> Integer("18")], [id_telegram |-> Str("B")] }

Idle == [pc |-> "idle"]

---------------------------------------------------------------------------
(* Helpers *)

RECURSIVE SumOver(_, _)
SumOver(S, d) ==
    IF S = {} THEN 0
    ELSE LET c == CHOOSE x \in S : TRUE
         IN  BagCardinality(d[c]) + SumOver(S \ {c}, d)

\* Documents in the whole database d.
TotalRecords(d) == SumOver(Countries, d)

One(r) == SetToBag({r})

\* The documents of coll that the filter {"id_telegram": id} matches.
Matches(coll, id) == { r \in BagToSet(coll) : r.id_telegram = id }

\* How many documents of coll carry id (with multiplicity).
CountId(coll, id) ==
    BagCardinality([r \in Matches(coll, id) |-> coll[r]])

---------------------------------------------------------------------------
(* Sanitizer *)

\* Faulty variant: the sanitizer replaces the infinities and misses NaN.
clean_scalar_inf_only(data) ==
    IF data.t = "float" /\ data.v \in {"inf", "-inf"} THEN None ELSE data

\* clean_data on a value that is neither a dict nor a list: a float that is
\* inf, -inf or NaN (data != data) becomes None, anything else is returned.
clean_scalar(data) ==
    IF data.t = "float" /\ data.v \in NonFinite THEN None ELSE data

RECURSIVE clean_data(_)

\* Faulty variant: the items of a list are not cleaned.
clean_data_skip_lists(data) ==
    IF data.t = "dict"
    THEN Dict([key \in DOMAIN data.v |-> clean_data(data.v[key])])
    ELSE IF data.t = "list" THEN data
    ELSE clean_scalar(data)

\* clean_data(data): a dict has every value cleaned under its key, a list
\* every item in its place.
clean_data(data) ==
    IF data.t = "dict"
    THEN Dict([key \in DOMAIN data.v |-> clean_data(data.v[key])])
    ELSE IF data.t = "list"
    THEN List([item \in DOMAIN data.v |-> clean_data(data.v[item])])
    ELSE clean_scalar(data)

\* A stored document as find / find_one return it with {"_id": False}.
as_dict(doc) ==
    Dict([id_telegram |-> Str(doc.id_telegram), data |-> Dict(doc.data)])

---------------------------------------------------------------------------
(* Store primitives. Each returns the set of outcomes the call can have. *)

\* collection.find_one({"id_telegram": id}, {"_id": False})
find_one(coll, id) ==
    IF Matches(coll, id) = {} THEN { [found |-> FALSE] }
    ELSE { [found |-> TRUE, doc |-> r] : r \in Matches(coll, id) }

\* Faulty variant: the filter does not select by id_telegram.
delete_one_unfiltered(coll, id) ==
    IF BagToSet(coll) = {}
    THEN { [coll |-> coll, deleted_count |-> 0] }
    ELSE { [coll |-> coll (-) One(r), deleted_count |-> 1] :
             r \in BagToSet(coll) }

\* collection.delete_one({"id_telegram": id})
delete_one(coll, id) ==
    IF Matches(coll, id) = {}
    THEN { [coll |-> coll, deleted_count |-> 0] }
    ELSE { [coll |-> coll (-) One(r), deleted_count |-> 1] :
             r \in Matches(coll, id) }

\* Faulty variant: $set replaces data by the given fields.
set_fields_replace(doc, upd) == [doc EXCEPT !.data = upd]

\* update_fields = {f"data.{field}": value ...} applied by $set to doc.
set_fields(doc, upd) ==
    [doc EXCEPT !.data =
        [k \in DOMAIN doc.data \cup DOMAIN upd |->
            IF k \in DOMAIN upd THEN upd[k] ELSE doc.data[k]]]

\* collection.update_one({"id_telegram": id}, {"$set": update_fields}).
\* modified_count counts documents the update changed, not documents matched.
\* (upd is not empty: the request bodies of the model name a field.)
update_one(coll, id, upd) ==
    IF Matches(coll, id) = {}
    THEN { [coll |-> coll, matched_count |-> 0, modified_count |-> 0] }
    ELSE { LET r2 == set_fields(r, upd)
           IN  [coll |-> IF r2 = r THEN coll
                         ELSE (coll (-) One(r)) (+) One(r2),
                matched_count |-> 1,
                modified_count |-> IF r2 = r THEN 0 ELSE 1] :
             r \in Matches(coll, id) }

\* db_manager.get_or_create_collection(country_code): the collection names
\* after the call; the collection is created if absent.
get_or_create_collection(names, country_code) == names \cup {country_code}

\* db_manager.insert_or_update_document(collection, data_for_mongo): upsert
\* by id_telegram; an existing document's data is replaced in full.
insert_or_update_document(coll, doc) ==
    IF Matches(coll, doc.id_telegram) = {}
    THEN { coll (+) One(doc) }
    ELSE { (coll (-) One(r)) (+) One(doc) :
             r \in Matches(coll, doc.id_telegram) }

---------------------------------------------------------------------------
(* Ingestion pipeline: download_and_process_telegrams(country_code) *)

\* data_for_mongo = {"id_telegram": id, "data": document} after
\* data_for_mongo["data"].pop("id_telegram", None).
data_for_mongo(document) ==
    [id_telegram |-> document["id_telegram"],
     data |-> [k \in DOMAIN document \ {"id_telegram"} |-> document[k]]]

\* Faulty variant: the loop inserts every document (insert_one instead of the upsert).
ingest_write_insert(coll, document) ==
    { coll (+) One(data_for_mongo(document)) }

\* Faulty variant: the loop merges the document's fields into the stored data
\* instead of replacing the data.
ingest_write_merge(coll, document) ==
    LET doc == data_for_mongo(document)
    IN  IF Matches(coll, doc.id_telegram) = {}
        THEN { coll (+) One(doc) }
        ELSE { (coll (-) One(r)) (+) One(set_fields(r, doc.data)) :
                 r \in Matches(coll, doc.id_telegram) }

\* The write of one loop iteration: the collections it can leave.
ingest_write(coll, document) ==
    insert_or_update_document(coll, data_for_mongo(document))

\* Faulty variant: a job whose run raised is removed from the job store.
job_finished_unschedule(c, raised) ==
    /\ instances' = [instances EXCEPT ![c] = @ - 1]
    /\ jobs' = IF raised THEN jobs \ {c} ELSE jobs
    /\ out' = IF raised THEN "job_error" ELSE "job_executed"

\* The scheduler's bookkeeping when job c's run ends: the instance is
\* released, the job stays in the job store, the event is dispatched.
job_finished(c, raised) ==
    /\ instances' = [instances EXCEPT ![c] = @ - 1]
    /\ jobs' = jobs
    /\ out' = IF raised THEN "job_error" ELSE "job_executed"

\* Faulty variant: the handler answers with the message whatever happened.
download_telegrams_reply_message(c, raised) ==
    /\ out' = "message"
    /\ UNCHANGED <<jobs, instances>>

\* download_telegrams's try/except around the pipeline.
download_telegrams_reply(c, raised) ==
    /\ out' = IF raised THEN "error" ELSE "message"
    /\ UNCHANGED <<jobs, instances>>

\* The run of worker w ends, by return or by exception.
end_run(w, raised) ==
    /\ run' = [run EXCEPT ![w] = Idle]
    /\ IF run[w].kind = "scheduled"
         THEN job_finished(run[w].country_code, raised)
         ELSE download_telegrams_reply(run[w].country_code, raised)

\* The whole loop over documents with nothing interleaved: the collections
\* it can leave.
RECURSIVE run_batch(_, _)
run_batch(coll, documents) ==
    IF documents = <<>> THEN { coll }
    ELSE UNION { run_batch(c1, Tail(documents)) :
                   c1 \in ingest_write(coll, Head(documents)) }

\* Faulty variant: the executor starts a job however many instances are running.
may_submit_always(c) == instances[c] >= 0

\* A cron trigger of country c's job fires: the executor starts the job
\* unless max_instances of it are running (then the firing is skipped).
may_submit(c) == instances[c] < max_instances

scheduler_fire(W, c) ==
    /\ c \in jobs
    /\ may_submit(c)
    /\ \E w \in W :
         /\ run[w] = Idle
         /\ run' = [run EXCEPT ![w] =
                      [pc |-> "call", kind |-> "scheduled",
                       country_code |-> c]]
    /\ instances' = [instances EXCEPT ![c] = @ + 1]
    /\ UNCHANGED <<db, collections, jobs, out>>

\* POST /download_telegrams?country_code=c arrives.
download_telegrams(W, c) ==
    /\ \E w \in W :
         /\ run[w] = Idle
         /\ run' = [run EXCEPT ![w] =
                      [pc |-> "call", kind |-> "manual",
                       country_code |-> c]]
    /\ UNCHANGED <<db, collections, jobs, instances, out>>

\* processor.process_telegrams() returns a batch, or raises.
process_telegrams(w, B) ==
    /\ run[w].pc = "call"
    /\ \/ /\ \E documents \in B :
               run' = [run EXCEPT ![w] =
                         [pc |-> "loop", kind |-> run[w].kind,
                          country_code |-> run[w].country_code,
                          documents |-> documents, i |-> 1]]
          /\ UNCHANGED <<db, collections, jobs, instances, out>>
       \/ /\ end_run(w, TRUE)
          /\ UNCHANGED <<db, collections>>

\* Faulty variant: an upsert that fails is passed over and the loop goes on
\* with the next document.
loop_iteration_swallow(w) ==
    /\ run[w].pc = "loop"
    /\ run[w].i <= Len(run[w].documents)
    /\ LET c == run[w].country_code
           document == run[w].documents[run[w].i]
       IN  \/ /\ \E coll \in ingest_write(db[c], document) :
                    db' = [db EXCEPT ![c] = coll]
              /\ TotalRecords(db') <= MaxRecords
              /\ collections' = get_or_create_collection(collections, c)
              /\ run' = [run EXCEPT ![w].i = @ + 1]
              /\ UNCHANGED <<jobs, instances, out>>
           \/ /\ run' = [run EXCEPT ![w].i = @ + 1]
              /\ UNCHANGED <<db, collections, jobs, instances, out>>

\* One iteration of "for document in documents": get_or_create_collection
\* and the upsert, or the store fails and the exception leaves the loop.
loop_iteration(w) ==
    /\ run[w].pc = "loop"
    /\ run[w].i <= Len(run[w].documents)
    /\ LET c == run[w].country_code
           document == run[w].documents[run[w].i]
       IN  \/ /\ \E coll \in ingest_write(db[c], document) :
                    db' = [db EXCEPT ![c] = coll]
              /\ TotalRecords(db') <= MaxRecords
              /\ collections' = get_or_create_collection(collections, c)
              /\ run' = [run EXCEPT ![w].i = @ + 1]
              /\ UNCHANGED <<jobs, instances, out>>
           \/ /\ end_run(w, TRUE)
              /\ UNCHANGED <<db, collections>>

\* What download_and_process_telegrams returns when its loop is exhausted:
\* the function has no return statement.
returned(documents) == None

\* The loop is exhausted: the function returns.
ingest_return(w) ==
    /\ run[w].pc = "loop"
    /\ run[w].i > Len(run[w].documents)
    /\ end_run(w, FALSE)
    /\ UNCHANGED <<db, collections>>

-------------------------------------------------------------------------------------------------------------------------------------------------
(* Point operations of the API. A handler is a function of the collection *)
(* and the request: X_reply is the set of (collection left, response)     *)
(* pairs it can produce, and the action X applies it to the database.     *)

\* GET /telegram/{collection_name}/{id_teleg}
get_reply(coll, id_teleg) ==
    { IF ~data.found
      THEN [msg |-> "no_data"]
      ELSE [msg |-> "found", body |-> clean_data(as_dict(data.doc))] :
        data \in find_one(coll, id_teleg) }

get_data_from_collection(collection_name, id_teleg) ==
    /\ \E r \in get_reply(db[collection_name], id_teleg) : out' = r.msg
    /\ UNCHANGED <<db, collections, jobs, instances, run>>

\* Faulty variant: the document is deleted from every collection.
delete_data_from_collection_everywhere(collection_name, id_teleg) ==
    /\ \E r \in { [coll |-> result.coll,
                   msg |-> IF result.deleted_count = 1 THEN "deleted"
                           ELSE "id_not_found"] :
                    result \in delete_one(db[collection_name], id_teleg) } :
         out' = r.msg
    /\ db' = [c \in DOMAIN db |->
                (CHOOSE result \in delete_one(db[c], id_teleg) : TRUE).coll]
    /\ UNCHANGED <<collections, jobs, instances, run>>

\* DELETE /telegram/{collection_name}/{id_teleg}
delete_reply(coll, id_teleg) ==
    { [coll |-> result.coll,
       msg |-> IF result.deleted_count = 1 THEN "deleted"
               ELSE "id_not_found"] :
        result \in delete_one(coll, id_teleg) }

delete_data_from_collection(collection_name, id_teleg) ==
    /\ \E r \in delete_reply(db[collection_name], id_teleg) :
         /\ db' = [db EXCEPT ![collection_name] = r.coll]
         /\ out' = r.msg
    /\ UNCHANGED <<collections, jobs, instances, run>>

\* PUT /telegram/{collection_name}/{id_teleg} with body dynamic_updates.
update_reply(coll, id_teleg, dynamic_updates) ==
    { [coll |-> result.coll,
       msg |-> IF result.modified_count = 1 THEN "updated"
               ELSE "id_not_found"] :
        result \in update_one(coll, id_teleg, dynamic_updates) }

update_data_in_collection(collection_name, id_teleg, dynamic_updates) ==
    /\ \E r \in update_reply(db[collection_name], id_teleg,
                              dynamic_updates) :
         /\ db' = [db EXCEPT ![collection_name] = r.coll]
         /\ out' = r.msg
    /\ UNCHANGED <<collections, jobs, instances, run>>

---------------------------------------------------------------------------
(* POST /filter_telegrams/ with body filter (a TelegramFilter). A field of *)
(* the filter that the body does not give is None.                         *)

\* bool(x) of an Optional[str] or Optional[List[str]] field: None, the empty
\* string and the empty list are false.
truthy(x) ==
    IF x.t = "list" THEN x.v # <<>>
    ELSE IF x.t = "str" THEN x.v # ""
    ELSE x.t # "NoneType"

Digits == {"0", "1", "2", "3", "4", "5", "6", "7", "8", "9"}

DigitValue(ch) ==
    CASE ch = "0" -> 0 [] ch = "1" -> 1 [] ch = "2" -> 2 [] ch = "3" -> 3
      [] ch = "4" -> 4 [] ch = "5" -> 5 [] ch = "6" -> 6 [] ch = "7" -> 7
      [] ch = "8" -> 8 [] ch = "9" -> 9

\* str.strip() of whitespace, as int() does before it parses.
RECURSIVE lstrip(_)
lstrip(text) ==
    IF text # <<>> /\ Head(text) = " " THEN lstrip(Tail(text)) ELSE text

RECURSIVE rstrip(_)
rstrip(text) ==
    IF text # <<>> /\ text[Len(text)] = " "
    THEN rstrip(SubSeq(text, 1, Len(text) - 1))
    ELSE text

\* The value of digits with single underscores between them.
RECURSIVE digits_value(_, _)
digits_value(body, acc) ==
    IF body = <<>> THEN acc
    ELSE IF Head(body) = "_" THEN digits_value(Tail(body), acc)
    ELSE digits_value(Tail(body), 10 * acc + DigitValue(Head(body)))

\* int(text) of a str: surrounding whitespace and a sign are accepted, and
\* single underscores between digits; anything else raises ValueError.
int(text) ==
    LET stripped == rstrip(lstrip(text))
        signed == stripped # <<>> /\ Head(stripped) \in {"+", "-"}
        body == IF signed THEN Tail(stripped) ELSE stripped
        valid ==
            /\ body # <<>>
            /\ Head(body) \in Digits
            /\ body[Len(body)] \in Digits
            /\ \A i \in 1..Len(body) : body[i] \in Digits \cup {"_"}
            /\ \A i \in 1..(Len(body) - 1) :
                 ~(body[i] = "_" /\ body[i + 1] = "_")
    IN  IF ~valid THEN [ValueError |-> TRUE]
        ELSE [ValueError |-> FALSE,
              value |-> IF signed /\ Head(stripped) = "-"
                        THEN 0 - digits_value(body, 0)
                        ELSE digits_value(body, 0)]

\* An int as the value a query compares with.
int_value(n) == Integer(ToString(n))

\* The body of "for collection_name in collections_to_query" down to the
\* hour: the query it builds, or skip when int() raised and the except
\* clause continued with the next collection. The keys are the fields under
\* "data." that the query names.
build_query(filter) ==
    LET by_station ==
            IF truthy(filter.station_id)
            THEN [k \in {"station_id"} |-> filter.station_id]
            ELSE <<>>
        has_date ==
            truthy(filter.date) /\ Len(chars(filter.date.v)) >= 8
        year == int(SubSeq(chars(filter.date.v), 1, 4))
        month == int(SubSeq(chars(filter.date.v), 5, 6))
        day == int(SubSeq(chars(filter.date.v), 7, 8))
        raised == has_date /\
                  (year.ValueError \/ month.ValueError \/ day.ValueError)
        by_date ==
            IF has_date
            THEN [k \in {"year", "month", "day"} |->
                    IF k = "year" THEN int_value(year.value)
                    ELSE IF k = "month" THEN int_value(month.value)
                    ELSE int_value(day.value)]
            ELSE <<>>
        by_hour ==
            IF filter.hour # None
            THEN [k \in {"hour"} |-> filter.hour]
            ELSE <<>>
    IN  IF raised THEN [skip |-> TRUE]
        ELSE [skip |-> FALSE, query |-> by_station @@ by_date @@ by_hour]

\* projection = {"_id": False} plus "data.<field>": True for every field of
\* fields_to_return: the set of the fields under "data." it includes (none:
\* the projection only excludes _id).
build_projection(filter) ==
    IF truthy(filter.fields_to_return)
    THEN { filter.fields_to_return.v[i] :
             i \in 1..Len(filter.fields_to_return.v) }
    ELSE {}

\* MongoDB's equality of a stored value with a query value: numbers compare
\* by value whatever their type, other values by type and content.
bson_eq(a, b) ==
    IF a.t \in {"int", "float"} /\ b.t \in {"int", "float"}
    THEN a.v = b.v
    ELSE a.t = b.t /\ a.v = b.v

\* The document matches the query: it has every field the query names, with
\* the value the query gives.
matches_query(doc, query) ==
    \A k \in DOMAIN query :
        k \in DOMAIN doc.data /\ bson_eq(doc.data[k], query[k])

\* Faulty variant: the projection is not applied to data.
project_whole_data(doc, projection) ==
    IF projection = {} THEN as_dict(doc)
    ELSE Dict([k \in {"data"} |-> Dict(doc.data)])

\* The document as find returns it under the projection: the whole document
\* (without _id) when the projection includes nothing, else only "data" with
\* the included fields that the document has.
project(doc, projection) ==
    IF projection = {} THEN as_dict(doc)
    ELSE Dict([k \in {"data"} |->
                 Dict([f \in projection \cap DOMAIN doc.data |->
                         doc.data[f]])])

\* The orders in which the documents of a bag can be returned.
RECURSIVE orderings(_)
orderings(bag) ==
    IF BagToSet(bag) = {} THEN { <<>> }
    ELSE UNION { { <<r>> \o rest : rest \in orderings(bag (-) One(r)) } :
                   r \in BagToSet(bag) }

\* list(collection.find(query, projection)): the matching documents in
\* store-native order, each under the projection.
find(coll, query, projection) ==
    LET matching ==
            [r \in { x \in BagToSet(coll) : matches_query(x, query) } |->
                coll[r]]
    IN  { [i \in 1..Len(found) |-> project(found[i], projection)] :
            found \in orderings(matching) }

\* db[collection_name]: a collection that does not exist is empty.
collection_of(d, collection_name) ==
    IF collection_name \in DOMAIN d THEN d[collection_name] ELSE EmptyBag

\* The orders in which list_collection_names() can return the names.
RECURSIVE name_orders(_)
name_orders(names) ==
    IF names = {} THEN { <<>> }
    ELSE UNION { { <<n>> \o rest : rest \in name_orders(names \ {n}) } :
                   n \in names }

\* collections_to_query
collections_to_query(names, filter) ==
    IF truthy(filter.country_code)
    THEN { << filter.country_code.v >> }
    ELSE name_orders(names)

\* The loop over collections_to_query: the results lists it can build.
RECURSIVE extend_results(_, _, _)
extend_results(d, to_query, filter) ==
    IF to_query = <<>> THEN { <<>> }
    ELSE LET built == build_query(filter)
             collection_results ==
                 IF built.skip THEN { <<>> }
                 ELSE find(collection_of(d, Head(to_query)), built.query,
                           build_projection(filter))
         IN  { first \o rest :
                 first \in collection_results,
                 rest \in extend_results(d, Tail(to_query), filter) }

\* results, before clean_data: the lists the handler can have built.
filter_results(d, names, filter) ==
    UNION { extend_results(d, to_query, filter) :
              to_query \in collections_to_query(names, filter) }

\* The response for a results list.
filter_response(results) ==
    LET cleaned_results == clean_data(List(results))
    IN  IF cleaned_results.v = <<>>
        THEN [msg |-> "no_data_found"]
        ELSE [msg |-> "results", results |-> cleaned_results]

filter_reply(d, names, filter) ==
    { filter_response(results) : results \in filter_results(d, names, filter) }

filter_telegrams(filter) ==
    /\ \E r \in filter_reply(db, collections, filter) : out' = r.msg
    /\ UNCHANGED <<db, collections, jobs, instances, run>>

---------------------------------------------------------------------------
(* Specifications *)

InitWith(W) ==
    /\ db = [c \in Countries |-> EmptyBag]
    /\ collections = {}
    /\ jobs = Countries
    /\ instances = [c \in Countries |-> 0]
    /\ run = [w \in W |-> Idle]
    /\ out = "none"

\* The ingestion steps, on the workers W with processor batches B.
Ingest(W, B) ==
    \/ \E c \in Countries : scheduler_fire(W, c)
    \/ \E c \in Countries : download_telegrams(W, c)
    \/ \E w \in W : process_telegrams(w, B)
    \/ \E w \in W : loop_iteration(w)
    \/ \E w \in W : ingest_return(w)

\* The point operations.
Api ==
    \/ \E c \in Countries, id \in Ids : get_data_from_collection(c, id)
    \/ \E c \in Countries, id \in Ids : delete_data_from_collection(c, id)
    \/ \E c \in Countries, id \in Ids, u \in Updates :
          update_data_in_collection(c, id, u)

\* Spec: one ingest run at a time, interleaved with the point operations.
Workers == 1..MaxWorkers

Init == InitWith(Workers)

Next == Ingest(Workers, Batches(Rows(Ids), MaxBatch)) \/ Api

Spec == Init /\ [][Next]_vars

\* SpecConc: overlapping ingest runs, scheduled and manual.
WorkersConc == 1..ConcWorkers

InitConc == InitWith(WorkersConc)

NextConc == Ingest(WorkersConc, Batches(ConcRows, ConcBatch))

SpecConc == InitConc /\ [][NextConc]_vars

\* SpecFilter: ingest runs of telegrams with dates, stations and nested
\* values, interleaved with filter requests.
NextFilter ==
    \/ Ingest(Workers, Batches(FilterRows, FilterBatch))
    \/ \E filter \in Filters : filter_telegrams(filter)

SpecFilter == Init /\ [][NextFilter]_vars

\* SpecPut: ingest runs interleaved with DELETE and with PUT requests whose
\* body may name the field id_telegram.
NextPut ==
    \/ Ingest(Workers, Batches(PutRows, PutBatch))
    \/ \E c \in Countries, id \in Ids : delete_data_from_collection(c, id)
    \/ \E c \in Countries, id \in Ids, u \in KeyUpdates :
          update_data_in_collection(c, id, u)

SpecPut == Init /\ [][NextPut]_vars

---------------------------------------------------------------------------
(* Properties *)

\* Worker w's step is a completed loop iteration (a write).
IsWrite(w) ==
    /\ run[w].pc = "loop"
    /\ run'[w].pc = "loop"
    /\ run'[w].i = run[w].i + 1

\* coll holds exactly one document with row's id_telegram, and its data is
\* row without id_telegram: same keys, same values.
HoldsExactly(coll, row) ==
    /\ CountId(coll, row["id_telegram"]) = 1
    /\ \A r \in Matches(coll, row["id_telegram"]) :
         /\ DOMAIN r.data = DOMAIN row \ {"id_telegram"}
         /\ \A k \in DOMAIN r.data : r.data[k] = row[k]

\* Worker w has written both rows of a two-row batch.
WroteTwo(w) ==
    /\ run[w].pc = "loop"
    /\ Len(run[w].documents) = 2
    /\ run[w].i = 3

NoDuplicateIds ==
    \A c \in Countries, id \in Ids : CountId(db[c], id) <= 1

\* C1: in every reachable state no collection holds two documents with the
\* same id_telegram, and a loop iteration that writes an id_telegram already
\* stored leaves the number of documents of the collection unchanged.
C1_UniqueIds ==
    /\ []NoDuplicateIds
    /\ [][\A w \in DOMAIN run :
            IsWrite(w) =>
              LET c == run[w].country_code
                  id == run[w].documents[run[w].i]["id_telegram"]
              IN  Matches(db[c], id) # {} =>
                    BagCardinality(db'[c]) = BagCardinality(db[c])]_vars

\* C1 witness: a run has written the same id_telegram twice and the
\* collection holds it once.
C1_Witness ==
    \E w \in DOMAIN run :
        /\ WroteTwo(w)
        /\ run[w].documents[1]["id_telegram"]
             = run[w].documents[2]["id_telegram"]
        /\ CountId(db[run[w].country_code],
                   run[w].documents[2]["id_telegram"]) = 1

\* Worker w's step is the processor returning its batch.
IsBatch(w) ==
    /\ run[w].pc = "call"
    /\ run'[w].pc = "loop"

\* C3: a loop iteration that upserts (id, dataA) leaves exactly one document
\* of id, whose data is dataA in full; and upserting any (id, dataB) next
\* leaves exactly one document of id whose data is dataB in full, no field
\* of dataA surviving. So of two rows with one id in a batch the later one
\* is what the collection holds.
C3_FullReplace ==
    [][\A w \in DOMAIN run :
         IsWrite(w) =>
           LET c == run[w].country_code
               a == run[w].documents[run[w].i]
           IN  /\ HoldsExactly(db'[c], a)
               /\ \A b \in Rows(Ids) :
                    b["id_telegram"] = a["id_telegram"] =>
                      \A c2 \in ingest_write(db'[c], b) :
                          HoldsExactly(c2, b)]_vars

\* C3 witness: a run wrote two different rows of one id, the second without
\* a field the first had, and the collection holds the second.
C3_Witness ==
    \E w \in DOMAIN run :
        /\ WroteTwo(w)
        /\ run[w].documents[1]["id_telegram"]
             = run[w].documents[2]["id_telegram"]
        /\ DOMAIN run[w].documents[2] # DOMAIN run[w].documents[1]
        /\ DOMAIN run[w].documents[2] \subseteq DOMAIN run[w].documents[1]
        /\ HoldsExactly(db[run[w].country_code], run[w].documents[2])

\* C4: after a loop iteration has upserted a row, upserting the same row
\* again changes nothing: the collection stays as it is, with one document
\* of that id. And for every batch the processor returns, running the whole
\* loop on it a second time leaves the collection as the first run left it.
C4_Idempotent ==
    /\ [][\A w \in DOMAIN run :
            IsWrite(w) =>
              LET c == run[w].country_code
                  a == run[w].documents[run[w].i]
              IN  /\ ingest_write(db'[c], a) = { db'[c] }
                  /\ CountId(db'[c], a["id_telegram"]) = 1]_vars
    /\ [][\A w \in DOMAIN run :
            IsBatch(w) =>
              \A c1 \in run_batch(db[run[w].country_code],
                                   run'[w].documents) :
                  run_batch(c1, run'[w].documents) = { c1 }]_vars

\* C4 witness: a run wrote the same row twice and the collection holds it
\* once.
C4_Witness ==
    \E w \in DOMAIN run :
        /\ WroteTwo(w)
        /\ run[w].documents[1] = run[w].documents[2]
        /\ HoldsExactly(db[run[w].country_code], run[w].documents[2])

---------------------------------------------------------------------------
(* Properties of overlapping runs and of the scheduler, under SpecConc *)

\* C2: when a manual run and a scheduled run of one country overlap, under
\* every interleaving of their upserts no collection ever holds two
\* documents with the same id_telegram.
C2_NoDuplicateUnderOverlap ==
    \A c \in Countries : \A id \in ConcIds :
        BagCardinality([r \in Matches(db[c], id) |-> db[c][r]]) <= 1

\* C2 witness: a manual and a scheduled run of one country are both in
\* their loop, each has written the same id_telegram, and the collection
\* holds it once.
C2_Witness ==
    \E w1, w2 \in DOMAIN run :
        /\ run[w1].pc = "loop" /\ run[w2].pc = "loop"
        /\ run[w1].kind = "manual" /\ run[w2].kind = "scheduled"
        /\ run[w1].country_code = run[w2].country_code
        /\ run[w1].i = 2 /\ run[w2].i = 2
        /\ run[w1].documents[1]["id_telegram"]
             = run[w2].documents[1]["id_telegram"]
        /\ CountId(db[run[w1].country_code],
                   run[w1].documents[1]["id_telegram"]) = 1

\* The workers executing a scheduled run of country c's job.
ScheduledRuns(c) ==
    { w \in DOMAIN run :
        /\ run[w].pc # "idle"
        /\ run[w].kind = "scheduled"
        /\ run[w].country_code = c }

\* C5: at most one scheduled run of a country's job is in progress at any
\* time, and the scheduler's instance count is the number in progress.
C5_OneInstancePerJob ==
    \A c \in Countries :
        /\ Cardinality(ScheduledRuns(c)) <= 1
        /\ instances[c] = Cardinality(ScheduledRuns(c))

\* C5 witness: the jobs of two different countries are running at once.
C5_Witness ==
    \E c1, c2 \in Countries :
        /\ c1 # c2
        /\ ScheduledRuns(c1) # {}
        /\ ScheduledRuns(c2) # {}

\* The state of country c's job.
JobState(c) ==
    IF c \notin jobs THEN "Removed"
    ELSE IF instances[c] > 0 THEN "Running"
    ELSE "Scheduled"

\* C6: every job is Scheduled or Running in every state (never removed),
\* and a step that ends a scheduled run, by return or by exception, leaves
\* the job Scheduled: registered, with no instance running, so that its
\* next firing is submitted.
C6_JobsNeverTerminate ==
    /\ [](\A c \in Countries : JobState(c) \in {"Scheduled", "Running"})
    /\ [][\A w \in DOMAIN run : \A c \in Countries :
            ( /\ run[w].pc # "idle"
              /\ run[w].kind = "scheduled"
              /\ run[w].country_code = c
              /\ run'[w].pc = "idle" )
            => /\ out' \in {"job_executed", "job_error"}
               /\ JobState(c)' = "Scheduled"
               /\ may_submit(c)']_vars

\* C6 witness: a scheduled run has raised and every job is Scheduled.
C6_Witness ==
    /\ out = "job_error"
    /\ \A c \in Countries : JobState(c) = "Scheduled"

---------------------------------------------------------------------------
(* Properties of the point operations, under Spec *)

\* The step is PUT /telegram/c/id with body u. (The conjuncts before the
\* action are implied by it; they spare evaluating it on other steps.)
IsPut(c, id, u) ==
    /\ run' = run
    /\ out' \in {"updated", "id_not_found"}
    /\ update_data_in_collection(c, id, u)

\* The step is DELETE /telegram/c/id.
IsDelete(c, id) ==
    /\ run' = run
    /\ out' \in {"deleted", "id_not_found"}
    /\ delete_data_from_collection(c, id)

\* C7: PUT answers "updated" exactly when a document with the id exists in
\* the collection, and "id_not_found" exactly when none does.
C7_PutReportsExistence ==
    \A c \in Countries : \A id \in Ids : \A u \in Updates :
        \A r \in update_reply(db[c], id, u) :
            /\ r.msg = "updated" <=> Matches(db[c], id) # {}
            /\ r.msg = "id_not_found" <=> Matches(db[c], id) = {}

\* Document r2 is document r with exactly the fields of u set under data.
MergedInto(r, u, r2) ==
    /\ r2.id_telegram = r.id_telegram
    /\ DOMAIN r2.data = DOMAIN r.data \cup DOMAIN u
    /\ \A k \in DOMAIN u : r2.data[k] = u[k]
    /\ \A k \in DOMAIN r.data \ DOMAIN u : r2.data[k] = r.data[k]

\* C8: a PUT on an id missing from the collection leaves the database as it
\* is; a PUT on an existing id changes that one document only, setting
\* exactly the given fields under data and keeping its other fields and its
\* id_telegram; no other document, collection or collection name changes.
C8_PutFrame ==
    [][\A c \in Countries : \A id \in Ids : \A u \in Updates :
         IsPut(c, id, u) =>
           /\ \A c2 \in Countries \ {c} : db'[c2] = db[c2]
           /\ collections' = collections
           /\ IF Matches(db[c], id) = {}
                THEN db'[c] = db[c]
                ELSE \E r \in Matches(db[c], id) :
                       \E r2 \in Matches(db'[c], id) :
                           /\ MergedInto(r, u, r2)
                           /\ db'[c] (+) One(r) = db[c] (+) One(r2)]_vars

\* C8 witness: a PUT has changed a document, which now holds the field it
\* set beside the one it had.
C8_Witness ==
    /\ out = "updated"
    /\ \E c \in Countries : \E r \in BagToSet(db[c]) :
         /\ DOMAIN r.data = {"temperature", "hour"}
         /\ r.data["hour"] = Integer("18")

\* C9: DELETE removes the document with the id when the collection holds
\* one, and nothing else: it answers "deleted" exactly when it removed a
\* document and "id_not_found" otherwise, and every other document and
\* collection is unchanged.
C9_DeleteOne ==
    [][\A c \in Countries : \A id \in Ids :
         IsDelete(c, id) =>
           /\ \A c2 \in Countries \ {c} : db'[c2] = db[c2]
           /\ collections' = collections
           /\ IF Matches(db[c], id) = {}
                THEN db'[c] = db[c] /\ out' = "id_not_found"
                ELSE /\ out' = "deleted"
                     /\ \E r \in Matches(db[c], id) :
                          db'[c] (+) One(r) = db[c]]_vars

\* C9 witness: a DELETE has removed a document and another is still stored.
C9_Witness ==
    /\ out = "deleted"
    /\ TotalRecords(db) = 1

\* reply is the sanitized form of stored document s.
SanitizedFrom(s, reply) ==
    /\ reply.msg = "found"
    /\ reply.body.t = "dict"
    /\ DOMAIN reply.body.v = {"id_telegram", "data"}
    /\ reply.body.v["id_telegram"] = Str(s.id_telegram)
    /\ reply.body.v["data"].t = "dict"
    /\ DOMAIN reply.body.v["data"].v = DOMAIN s.data
    /\ \A k \in DOMAIN s.data :
         reply.body.v["data"].v[k] =
            IF s.data[k] \in {Float("inf"), Float("-inf"), Float("nan")}
            THEN None
            ELSE s.data[k]

\* GET answers as the claim says in collection coll.
GetAnswers(coll, id) ==
    \A reply \in get_reply(coll, id) :
        IF Matches(coll, id) = {}
        THEN reply = [msg |-> "no_data"]
        ELSE \E s \in Matches(coll, id) : SanitizedFrom(s, reply)

\* C10: in every reachable state GET answers the sentinel exactly when the
\* collection holds no document with the id, and otherwise a stored
\* document of that id, sanitized. After a loop iteration has written a row,
\* GET of its id answers that row, sanitized; after DELETE of an id, GET of
\* that id answers the sentinel and GET of every other id answers as before.
C10_GetPointLookup ==
    /\ [](\A c \in Countries : \A id \in Ids : GetAnswers(db[c], id))
    /\ [][\A w \in DOMAIN run :
            IsWrite(w) =>
              LET row == run[w].documents[run[w].i]
              IN  \A reply \in get_reply(db'[run[w].country_code],
                                          row["id_telegram"]) :
                      SanitizedFrom(data_for_mongo(row), reply)]_vars
    /\ [][\A c \in Countries : \A id \in Ids :
            IsDelete(c, id) =>
              /\ get_reply(db'[c], id) = { [msg |-> "no_data"] }
              /\ \A b \in Ids \ {id} :
                   get_reply(db'[c], b) = get_reply(db[c], b)]_vars

\* C10 witness: after a DELETE a collection that was written to holds B and
\* not A, and a GET has answered the sentinel.
C10_Witness ==
    /\ out = "no_data"
    /\ \E c \in collections :
         /\ Matches(db[c], "A") = {}
         /\ \E s \in Matches(db[c], "B") :
              s.data["temperature"] = Float("nan")

---------------------------------------------------------------------------
(* Properties of POST /filter_telegrams/, under SpecFilter *)

\* The date is unparseable: shorter than 8 characters, or with a character
\* that is not a digit among its first 8.
Unparseable(date) ==
    /\ date # None
    /\ \/ Len(chars(date.v)) < 8
       \/ \E i \in 1..8 : chars(date.v)[i] \notin Digits

\* The date is a parseable YYYYMMDD: its first 8 characters are digits.
Parseable(date) ==
    /\ date # None
    /\ Len(chars(date.v)) >= 8
    /\ \A i \in 1..8 : chars(date.v)[i] \in Digits

\* The number that a sequence of digits writes.
RECURSIVE Number(_)
Number(digits) ==
    IF digits = <<>> THEN 0
    ELSE 10 * Number(SubSeq(digits, 1, Len(digits) - 1))
           + DigitValue(digits[Len(digits)])

\* The document has the number n in field k of its data.
HasNumber(doc, k, n) ==
    /\ k \in DOMAIN doc.data
    /\ doc.data[k].t \in {"int", "float"}
    /\ doc.data[k].v = ToString(n)

\* The document satisfies the conjunction of the criteria that are present.
SatisfiesCriteria(doc, filter) ==
    /\ filter.station_id # None =>
         /\ "station_id" \in DOMAIN doc.data
         /\ doc.data["station_id"].t = "str"
         /\ doc.data["station_id"].v = filter.station_id.v
    /\ Parseable(filter.date) =>
         /\ HasNumber(doc, "year",
                      Number(SubSeq(chars(filter.date.v), 1, 4)))
         /\ HasNumber(doc, "month",
                      Number(SubSeq(chars(filter.date.v), 5, 6)))
         /\ HasNumber(doc, "day",
                      Number(SubSeq(chars(filter.date.v), 7, 8)))
    /\ filter.hour # None =>
         /\ "hour" \in DOMAIN doc.data
         /\ doc.data["hour"].t \in {"int", "float"}
         /\ doc.data["hour"].v = filter.hour.v

\* The documents of coll that satisfy the criteria.
Satisfying(coll, filter) ==
    [r \in { x \in BagToSet(coll) : SatisfiesCriteria(x, filter) } |->
        coll[r]]

\* The collections the criteria target.
TargetCollections(filter) ==
    IF filter.country_code # None
    THEN { filter.country_code.v }
    ELSE collections

\* The orders in which the target collections can be iterated.
TargetOrders(filter) ==
    IF filter.country_code # None
    THEN { << filter.country_code.v >> }
    ELSE name_orders(collections)

\* The bag of the items of a list.
RECURSIVE SeqToBag(_)
SeqToBag(seq) ==
    IF seq = <<>> THEN EmptyBag ELSE One(Head(seq)) (+) SeqToBag(Tail(seq))

\* The full records of the documents of the target collections S that
\* satisfy the criteria, as a bag.
RECURSIVE FullRecords(_, _)
FullRecords(S, filter) ==
    IF S = {} THEN EmptyBag
    ELSE LET c == CHOOSE x \in S : TRUE
             some == CHOOSE o \in orderings(
                         Satisfying(collection_of(db, c), filter)) : TRUE
         IN  SeqToBag([i \in 1..Len(some) |-> as_dict(some[i])])
               (+) FullRecords(S \ {c}, filter)

\* Criteria that ask for full records.
FullFilters == { filter \in Filters : filter.fields_to_return = None }

\* C11: for every criteria whose date is unparseable, the handler answers
\* with a response (results or the no-data message), and with the same
\* responses as for the same criteria with date unset.
C11_BadDateDropped ==
    \A filter \in Filters :
        Unparseable(filter.date) =>
          /\ \A reply \in filter_reply(db, collections, filter) :
                 reply.msg \in {"results", "no_data_found"}
          /\ filter_reply(db, collections, filter)
               = filter_reply(db, collections,
                              [filter EXCEPT !.date = None])

\* C12: for every criteria, the records the handler collects are exactly the
\* documents of the target collections that satisfy the conjunction of the
\* criteria present: station_id when set, year, month and day when the date
\* is a parseable YYYYMMDD, hour when set (0 included); a criterion that is
\* absent constrains nothing.
C12_PredicateIsConjunction ==
    \A filter \in FullFilters :
        \A results \in filter_results(db, collections, filter) :
            SeqToBag(results)
              = FullRecords(TargetCollections(filter), filter)

\* The concatenations, along the collection names of to_query, of the
\* records of each collection that satisfy the criteria.
RECURSIVE Concatenations(_, _)
Concatenations(to_query, filter) ==
    IF to_query = <<>> THEN { <<>> }
    ELSE { [i \in 1..Len(o) |-> as_dict(o[i])] \o rest :
             o \in orderings(
                     Satisfying(collection_of(db, Head(to_query)), filter)),
             rest \in Concatenations(Tail(to_query), filter) }

\* C13: the handler queries the collection country_code names when it is
\* set and else every existing collection; its results are the concatenation
\* of the collections' results in the order the collections were iterated;
\* empty results are answered by the no-data message, others by the results
\* list, item for item.
C13_FanOut ==
    \A filter \in FullFilters :
        \A results \in filter_results(db, collections, filter) :
            /\ \E to_query \in TargetOrders(filter) :
                   results \in Concatenations(to_query, filter)
            /\ LET reply == filter_response(results)
               IN  IF results = <<>>
                   THEN reply = [msg |-> "no_data_found"]
                   ELSE /\ reply.msg = "results"
                        /\ reply.results.t = "list"
                        /\ Len(reply.results.v) = Len(results)
                        /\ \A i \in 1..Len(results) :
                             reply.results.v[i].v["id_telegram"]
                               = results[i].v["id_telegram"]

\* The fields fields_to_return names.
Named(filter) ==
    IF filter.fields_to_return.t = "list"
    THEN { filter.fields_to_return.v[i] :
             i \in 1..Len(filter.fields_to_return.v) }
    ELSE {}

\* The documents stored in the collections the criteria target.
TargetDocuments(filter) ==
    UNION { BagToSet(collection_of(db, c)) : c \in TargetCollections(filter) }

\* rec is the full record of stored document s, sanitized.
IsFullRecord(rec, s) ==
    /\ rec.t = "dict"
    /\ DOMAIN rec.v = {"id_telegram", "data"}
    /\ rec.v["id_telegram"].t = "str"
    /\ rec.v["id_telegram"].v = s.id_telegram
    /\ rec.v["data"].t = "dict"
    /\ DOMAIN rec.v["data"].v = DOMAIN s.data
    /\ \A k \in DOMAIN s.data : rec.v["data"].v[k] = clean_data(s.data[k])

\* The data of rec holds exactly the named sub-fields that s has, sanitized.
HasNamedData(rec, s, filter) ==
    /\ rec.t = "dict"
    /\ "data" \in DOMAIN rec.v
    /\ rec.v["data"].t = "dict"
    /\ DOMAIN rec.v["data"].v = Named(filter) \cap DOMAIN s.data
    /\ \A k \in Named(filter) \cap DOMAIN s.data :
         rec.v["data"].v[k] = clean_data(s.data[k])

\* The records of the results responses to the criteria.
ReturnedRecords(filter) ==
    UNION { { reply.results.v[i] : i \in 1..Len(reply.results.v) } :
              reply \in { r \in filter_reply(db, collections, filter) :
                            r.msg = "results" } }

\* C14 as stated: when fields_to_return is given, every record returned has
\* the id_telegram of a stored record and, in data, exactly the named
\* sub-fields that record has; when it is not given, every record returned
\* is a full record.
C14_ProjectionWithId ==
    \A filter \in Filters : \A rec \in ReturnedRecords(filter) :
        IF filter.fields_to_return # None
        THEN \E s \in TargetDocuments(filter) :
               /\ HasNamedData(rec, s, filter)
               /\ "id_telegram" \in DOMAIN rec.v
               /\ rec.v["id_telegram"].v = s.id_telegram
        ELSE \E s \in TargetDocuments(filter) : IsFullRecord(rec, s)

\* C14 amended: when fields_to_return names fields, every record returned
\* holds data alone, without id_telegram, and data holds exactly the named
\* sub-fields that a stored record satisfying the criteria has, and no
\* others; when fields_to_return is absent or empty, every record returned
\* is the full record of a stored record satisfying the criteria.
C14_Projection ==
    \A filter \in Filters : \A rec \in ReturnedRecords(filter) :
        \E s \in TargetDocuments(filter) :
            /\ SatisfiesCriteria(s, filter)
            /\ IF Named(filter) # {}
               THEN /\ HasNamedData(rec, s, filter)
                    /\ DOMAIN rec.v = {"data"}
               ELSE IsFullRecord(rec, s)

\* C14 witness: a filter request was answered with results, and for criteria
\* naming two fields a record is returned that holds the one its stored
\* record has.
C14_Witness ==
    /\ out = "results"
    /\ \E filter \in Filters :
         /\ Named(filter) = {"temperature", "pressure"}
         /\ \E rec \in ReturnedRecords(filter) :
              DOMAIN rec.v["data"].v = {"temperature"}

\* y is the tree x with exactly its +infinity, -infinity and NaN leaves
\* replaced by null: the same mappings with the same keys, the same
\* sequences with the same length and order, every other leaf as it was.
RECURSIVE SanitizedTree(_, _)
SanitizedTree(x, y) ==
    IF x.t = "dict"
    THEN /\ y.t = "dict"
         /\ DOMAIN y.v = DOMAIN x.v
         /\ \A k \in DOMAIN x.v : SanitizedTree(x.v[k], y.v[k])
    ELSE IF x.t = "list"
    THEN /\ y.t = "list"
         /\ Len(y.v) = Len(x.v)
         /\ \A i \in 1..Len(x.v) : SanitizedTree(x.v[i], y.v[i])
    ELSE IF x.t = "float" /\ x.v \in {"inf", "-inf", "nan"}
    THEN y.t = "NoneType"
    ELSE y.t = x.t /\ y.v = x.v

\* C15: for every tree the handlers hand to the sanitizer (a stored document
\* as GET reads it, a results list as the filter builds it, with nested
\* mappings and sequences), clean_data returns the tree of the same shape,
\* keys and element order in which exactly the +infinity, -infinity and NaN
\* floats, at any depth and position, are null, every other leaf unchanged.
C15_SanitizerOnTrees ==
    /\ \A c \in Countries : \A s \in BagToSet(db[c]) :
           SanitizedTree(as_dict(s), clean_data(as_dict(s)))
    /\ \A filter \in Filters :
           \A results \in filter_results(db, collections, filter) :
               SanitizedTree(List(results), clean_data(List(results)))

\* C15 witness: a filter request was answered with results holding a record
\* whose wind list has null in place of -infinity, the string "nan" as it
\* was and null inside the mapping nested in the list.
C15_Witness ==
    /\ out = "results"
    /\ \E filter \in FullFilters : \E rec \in ReturnedRecords(filter) :
         /\ "wind" \in DOMAIN rec.v["data"].v
         /\ rec.v["data"].v["wind"].v[1].t = "NoneType"
         /\ rec.v["data"].v["wind"].v[2].t = "str"
         /\ rec.v["data"].v["wind"].v[2].v = "nan"
         /\ rec.v["data"].v["wind"].v[3].v["gust"].t = "NoneType"

---------------------------------------------------------------------------
(* Properties of a failing or completed ingest run *)

\* Worker w's step is the failure of the upsert of document k of its batch.
UpsertFails(w, k) ==
    /\ run[w].pc = "loop"
    /\ run[w].i = k
    /\ k <= Len(run[w].documents)
    /\ run'[w].pc = "idle"

\* C16: a step of the loop at document k either writes document k, which
\* the collection then holds exactly, and goes on to k + 1, or is the
\* failure of that upsert: then the database is left as it is (documents
\* 1..k-1 stay as written, nothing is rolled back), the run is over, so that
\* documents k..n are not attempted, and the failure reaches the caller of
\* the ingest (the handler's except clause or the scheduler's executor).
C16_FailFastNoRollback ==
    [][\A w \in DOMAIN run :
         ( /\ run[w].pc = "loop"
           /\ run[w].i <= Len(run[w].documents)
           /\ run'[w] # run[w] )
         => LET k == run[w].i
                c == run[w].country_code
            IN  \/ /\ IsWrite(w)
                   /\ run'[w].documents = run[w].documents
                   /\ HoldsExactly(db'[c], run[w].documents[k])
                \/ /\ UpsertFails(w, k)
                   /\ run'[w] = Idle
                   /\ db' = db
                   /\ collections' = collections
                   /\ out' = IF run[w].kind = "manual" THEN "error"
                             ELSE "job_error"]_vars

\* C16 witness: a scheduled run has failed, no run is in progress, and the
\* database holds a document written before the failure.
C16_Witness ==
    /\ out = "job_error"
    /\ \A w \in DOMAIN run : run[w] = Idle
    /\ TotalRecords(db) = 1
    /\ \E c \in collections : BagCardinality(db[c]) = 1

\* Worker w executes a manual run (POST /download_telegrams).
IsManual(w) == run[w].pc # "idle" /\ run[w].kind = "manual"

\* The run of worker w has run the pipeline to completion.
Completed(w) ==
    run[w].pc = "loop" /\ run[w].i > Len(run[w].documents)

C18_ReturnsCount ==
    \A w \in DOMAIN run :
        (run[w].pc = "loop" /\ run[w].i > Len(run[w].documents)) =>
          /\ returned(run[w].documents).t = "int"
          /\ returned(run[w].documents).v = ToString(Len(run[w].documents))

---------------------------------------------------------------------------
(* Properties of the stored shape and of the collections, under SpecPut *)

\* The (collection, id_telegram) of the documents of database d that have an
\* id_telegram key inside their data.
IdInData(d) ==
    UNION { { <<c, r.id_telegram>> :
                r \in { x \in BagToSet(d[c]) :
                          "id_telegram" \in DOMAIN x.data } } :
              c \in Countries }

\* The document a loop iteration of worker w leaves has the shape
\* {id_telegram, data}, the id_telegram of the processor's row and no
\* id_telegram key inside data.
WritesShape(w) ==
    IsWrite(w) =>
      LET c == run[w].country_code
          row == run[w].documents[run[w].i]
      IN  /\ Matches(db'[c], row["id_telegram"]) # {}
          /\ \A r \in Matches(db'[c], row["id_telegram"]) :
               /\ DOMAIN r = {"id_telegram", "data"}
               /\ r.id_telegram = row["id_telegram"]
               /\ "id_telegram" \notin DOMAIN r.data

\* C19: in every state reachable by ingest, PUT and DELETE no
\* stored document has an id_telegram key inside its data, and every
\* document written by ingest has the shape {id_telegram, data} with the
\* id_telegram of the processor's row.
C19_IdStoredOnce ==
    /\ [](IdInData(db) = {})
    /\ [][\A w \in DOMAIN run : WritesShape(w)]_vars

\* C20: a loop iteration of an ingest run for country X, a PUT on (X, id)
\* and a DELETE on (X, id) leave the documents of every other collection as
\* they are, a document with the same id_telegram included; and no step
\* removes a collection.
C20_CollectionsIsolated ==
    /\ [][\A w \in DOMAIN run :
            IsWrite(w) =>
              \A Y \in Countries \ {run[w].country_code} :
                  db'[Y] = db[Y]]_vars
    /\ [][\A X \in Countries : \A id \in Ids : \A u \in KeyUpdates :
            IsPut(X, id, u) =>
              \A Y \in Countries \ {X} : db'[Y] = db[Y]]_vars
    /\ [][\A X \in Countries : \A id \in Ids :
            IsDelete(X, id) =>
              \A Y \in Countries \ {X} : db'[Y] = db[Y]]_vars
    /\ [][collections \subseteq collections' /\ DOMAIN db' = DOMAIN db]_vars

\* C20 witness: two collections hold a document with id_telegram A; a PUT
\* has written into the one (only a PUT puts id_telegram inside data) and
\* the other is as ingest wrote it.
C20_Witness ==
    \E X, Y \in collections :
        /\ X # Y
        /\ \E r \in Matches(db[X], "A") : "id_telegram" \in DOMAIN r.data
        /\ \E r \in Matches(db[Y], "A") : "id_telegram" \notin DOMAIN r.data

====
